---- MODULE Spec2Model ----
(***************************************************************************)
(* Multi-provider LLM message adaptation and dispatch layer                *)
(* (modules/llm/chat.py): the message model, the message-list node, the    *)
(* five provider adapters and the two dispatch nodes.                      *)
(*                                                                         *)
(* Lists of messages are Python objects with identity: `lists` is the heap *)
(* of list objects make_message has returned, a list's identity being its  *)
(* index.  An adapter call is one atomic step whose outcome (the text or   *)
(* the exception, every request sent, every Gemini session started) is     *)
(* kept in `call`.  The vendor's answer to a request is an input of the    *)
(* step.  `environ` is the process environment (os.environ) and `created`  *)
(* the last create_api call of an adapter-creation node.                   *)
(***************************************************************************)
EXTENDS Integers, Sequences, FiniteSets, TLC

VARIABLES lists, mk, call, environ, created

vars == <<lists, mk, call, environ, created>>

(* Bound: the number of list objects make_message may allocate, hence also *)
(* the longest conversation.                                               *)
MaxLists == 3

(***************************************************************************)
(* Python's Optional: None is <<>>, a present value x is <<x>>.            *)
(***************************************************************************)
None == <<>>

Some(x) == <<x>>

(***************************************************************************)
(* Model registries.                                                       *)
(***************************************************************************)
gpt_vision_models ==
  {"gpt-4o", "gpt-4o-mini", "gpt-4.1", "gpt-4.1-mini", "gpt-4.1-nano",
   "gpt-4-turbo", "gpt-4-turbo-preview", "gpt-4-vision-preview",
   "o1", "o1-mini", "o1-preview", "o1-pro", "o3", "o3-mini", "o3-pro", "o4-mini"}

gpt_models == gpt_vision_models \cup {"gpt-4", "gpt-3.5-turbo", "gpt-3.5-turbo-16k"}

claude3_models ==
  {"claude-sonnet-4-20250514", "claude-opus-4-20250514", "claude-3-7-sonnet-latest",
   "claude-3-7-sonnet-20250219", "claude-3-5-sonnet-latest", "claude-3-5-sonnet-20241022",
   "claude-3-5-haiku-20241022", "claude-3-opus-latest", "claude-3-opus-20240229",
   "claude-3-sonnet-20240229", "claude-3-haiku-20240307"}

claude2_models == {"claude-2.1"}

gemini_vision_models ==
  {"gemini-2.0-flash-exp", "gemini-1.5-flash", "gemini-1.5-flash-8b", "gemini-1.5-pro",
   "gemini-1.0-pro-vision"}

gemini_models == gemini_vision_models \cup {"gemini-1.0-pro"}

bedrock_claude3_models ==
  {"anthropic.claude-opus-4-20250514-v1:0", "anthropic.claude-sonnet-4-20250514-v1:0",
   "anthropic.claude-3-7-sonnet-20250219-v1:0", "anthropic.claude-3-5-sonnet-20241022-v2:0",
   "anthropic.claude-3-5-haiku-20241022-v1:0", "anthropic.claude-3-haiku-20240307-v1:0",
   "anthropic.claude-3-sonnet-20240229-v1:0", "anthropic.claude-3-opus-20240229-v1:0"}

bedrock_claude2_models == {"anthropic.claude-v2", "anthropic.claude-v2.1"}

bedrock_mistral_models ==
  {"mistral.mistral-7b-instruct-v0:2", "mistral.mixtral-8x7b-instruct-v0:1",
   "mistral.mistral-large-2402-v1:0"}

(***************************************************************************)
(* LLMConfig, LLMMessageRole, LLMMessage.                                  *)
(***************************************************************************)
LLMConfig(model, max_token, temperature) ==
  [model |-> model, max_token |-> max_token, temperature |-> temperature]

LLMMessageRole == {"system", "user", "assistant"}

(* images is Optional[List[str]]: None, or Some(list of base64 strings).   *)
LLMMessage(role, text, images) == [role |-> role, text |-> text, images |-> images]

(* Python truthiness of self.images: neither None nor the empty list.      *)
HasImages(m) == m.images # None /\ m.images[1] # <<>>

(***************************************************************************)
(* Image helpers of ..utils and of the base64 library: each conversion     *)
(* yields a value of its own kind.                                         *)
(***************************************************************************)
tensor2pil(t) == [pil |-> t]

pil2base64(p) == "b64png" \o ToString(p.pil)

b64decode(s) == [bytes |-> s]

(***************************************************************************)
(* Variant of to_openai_message that walks the images backwards.           *)
(***************************************************************************)
to_openai_message_Reversed(self) ==
  LET text == <<[type |-> "text", text |-> self.text]>>
      n    == IF HasImages(self) THEN Len(self.images[1]) ELSE 0
      imgs == [i \in 1..n |->
                 [type |-> "image_url",
                  image_url |-> [url |-> "data:image/png;base64,"
                                         \o self.images[1][n + 1 - i]]]]
  IN  [role |-> self.role, content |-> text \o imgs]

(***************************************************************************)
(* LLMMessage.to_openai_message                                            *)
(***************************************************************************)
to_openai_message(self) ==
  LET text == <<[type |-> "text", text |-> self.text]>>
      imgs == IF HasImages(self)
              THEN [i \in 1..Len(self.images[1]) |->
                      [type |-> "image_url",
                       image_url |-> [url |-> "data:image/png;base64," \o self.images[1][i]]]]
              ELSE <<>>
  IN  [role |-> self.role, content |-> text \o imgs]

(***************************************************************************)
(* LLMMessage.to_claude_message: the text block, then one block per image  *)
(* appended while walking reversed(self.images).                           *)
(***************************************************************************)
to_claude_message(self) ==
  LET text == <<[type |-> "text", text |-> self.text]>>
      n    == IF HasImages(self) THEN Len(self.images[1]) ELSE 0
      imgs == [i \in 1..n |->
                 [type |-> "image",
                  source |-> [type |-> "base64", media_type |-> "image/png",
                              data |-> self.images[1][n + 1 - i]]]]
  IN  [role |-> self.role, content |-> text \o imgs]

(***************************************************************************)
(* LLMMessage.to_gemini_message                                            *)
(***************************************************************************)
to_gemini_message(self) ==
  LET imgs == IF HasImages(self)
              THEN [i \in 1..Len(self.images[1]) |->
                      [mime_type |-> "image/png", data |-> b64decode(self.images[1][i])]]
              ELSE <<>>
  IN  [role |-> IF self.role = "user" THEN "user" ELSE "model",
       parts |-> <<self.text>> \o imgs]

(***************************************************************************)
(* Variants of make_message with one defect each: the second-system-prompt *)
(* check left out; the input list appended to in place instead of copied.  *)
(***************************************************************************)
make_message_NoSystemCheck(role, text, image, messages) ==
  LET copy == IF messages = 0 THEN <<>> ELSE lists[messages]
      isTensor == image # None
      images == IF ~isTensor THEN <<>>
                ELSE IF image[1].batch
                THEN [i \in 1..Len(image[1].px) |-> pil2base64(tensor2pil(image[1].px[i]))]
                ELSE <<pil2base64(tensor2pil(image[1].px[1]))>>
      msg == IF isTensor THEN LLMMessage(role, text, Some(images))
                         ELSE LLMMessage(role, text, None)
  IN  IF role = "system" /\ isTensor
      THEN [raised |-> TRUE, error |-> "System prompt does not support image.",
            heap |-> lists, out |-> 0]
      ELSE [raised |-> FALSE, error |-> "",
            heap |-> Append(lists, Append(copy, msg)), out |-> Len(lists) + 1]

make_message_InPlace(role, text, image, messages) ==
  LET old == IF messages = 0 THEN <<>> ELSE lists[messages]
      isTensor == image # None
      system_message == SelectSeq(old, LAMBDA m : m.role = "system")
      images == IF ~isTensor THEN <<>>
                ELSE IF image[1].batch
                THEN [i \in 1..Len(image[1].px) |-> pil2base64(tensor2pil(image[1].px[i]))]
                ELSE <<pil2base64(tensor2pil(image[1].px[1]))>>
      msg == IF isTensor THEN LLMMessage(role, text, Some(images))
                         ELSE LLMMessage(role, text, None)
  IN  IF role = "system" /\ isTensor
      THEN [raised |-> TRUE, error |-> "System prompt does not support image.",
            heap |-> lists, out |-> 0]
      ELSE IF role = "system" /\ Len(system_message) > 0
      THEN [raised |-> TRUE, error |-> "Only one system prompt is allowed.",
            heap |-> lists, out |-> 0]
      ELSE IF messages = 0
      THEN [raised |-> FALSE, error |-> "",
            heap |-> Append(lists, <<msg>>), out |-> Len(lists) + 1]
      ELSE [raised |-> FALSE, error |-> "",
            heap |-> [lists EXCEPT ![messages] = Append(@, msg)], out |-> messages]

(***************************************************************************)
(* Variant of make_message with the image check on system prompts left     *)
(* out.                                                                    *)
(***************************************************************************)
make_message_NoImageCheck(role, text, image, messages) ==
  LET copy == IF messages = 0 THEN <<>> ELSE lists[messages]
      isTensor == image # None
      system_message == SelectSeq(copy, LAMBDA m : m.role = "system")
      images == IF ~isTensor THEN <<>>
                ELSE IF image[1].batch
                THEN [i \in 1..Len(image[1].px) |-> pil2base64(tensor2pil(image[1].px[i]))]
                ELSE <<pil2base64(tensor2pil(image[1].px[1]))>>
      msg == IF isTensor THEN LLMMessage(role, text, Some(images))
                         ELSE LLMMessage(role, text, None)
  IN  IF role = "system" /\ Len(system_message) > 0
      THEN [raised |-> TRUE, error |-> "Only one system prompt is allowed.",
            heap |-> lists, out |-> 0]
      ELSE [raised |-> FALSE, error |-> "",
            heap |-> Append(lists, Append(copy, msg)), out |-> Len(lists) + 1]

(***************************************************************************)
(* LLMMessageNode.make_message.  `messages` is 0 for None, else the        *)
(* identity of a list on the heap; `image` is None or a tensor             *)
(* [batch, px]: batch says len(image.shape) = 4, px are the images in it.  *)
(* The result says whether the call raised, the heap afterwards and the    *)
(* identity of the list returned.                                          *)
(***************************************************************************)
make_message(role, text, image, messages) ==
  LET copy == IF messages = 0 THEN <<>> ELSE lists[messages]
      isTensor == image # None
      system_message == SelectSeq(copy, LAMBDA m : m.role = "system")
      images == IF ~isTensor THEN <<>>
                ELSE IF image[1].batch
                THEN [i \in 1..Len(image[1].px) |-> pil2base64(tensor2pil(image[1].px[i]))]
                ELSE <<pil2base64(tensor2pil(image[1].px[1]))>>
      msg == IF isTensor THEN LLMMessage(role, text, Some(images))
                         ELSE LLMMessage(role, text, None)
  IN  IF role = "system" /\ isTensor
      THEN [raised |-> TRUE, error |-> "System prompt does not support image.",
            heap |-> lists, out |-> 0]
      ELSE IF role = "system" /\ Len(system_message) > 0
      THEN [raised |-> TRUE, error |-> "Only one system prompt is allowed.",
            heap |-> lists, out |-> 0]
      ELSE [raised |-> FALSE, error |-> "",
            heap |-> Append(lists, Append(copy, msg)), out |-> Len(lists) + 1]

(***************************************************************************)
(* Inputs of the message node.                                             *)
(***************************************************************************)
TestImages ==
  {None, Some([batch |-> FALSE, px |-> <<1>>]), Some([batch |-> TRUE, px |-> <<1, 2>>])}

(* The text widget of the k-th message node: distinct texts tell the       *)
(* messages of a conversation apart.                                       *)
NodeText(k) == "t" \o ToString(k)

(***************************************************************************)
(* Outcome of one adapter call: the text returned or the exception raised, *)
(* with every request the call sent (HTTP POST, gateway invoke_model, SDK  *)
(* generate_content / send_message) and every Gemini session it started.   *)
(***************************************************************************)
Returned(text, requests, sessions) ==
  [status |-> "returned", text |-> Some(text), error |-> None,
   requests |-> requests, sessions |-> sessions]

Raised(message, requests, sessions) ==
  [status |-> "raised", text |-> None, error |-> Some(message),
   requests |-> requests, sessions |-> sessions]

(* The exception requests.post / invoke_model / the SDK call raises on a   *)
(* transport failure; no adapter catches it.                               *)
TransportError == "ConnectionError"

(***************************************************************************)
(* The vendor's answer to a request: the transport fails, or a body comes  *)
(* back with an optional error object (its message) and the text at the    *)
(* vendor's reply path.                                                    *)
(***************************************************************************)
Responses ==
  {[fails |-> TRUE,  error |-> None, text |-> ""],
   [fails |-> FALSE, error |-> Some("Overloaded"), text |-> ""],
   [fails |-> FALSE, error |-> Some("Overloaded"), text |-> "partial"],
   [fails |-> FALSE, error |-> None, text |-> "reply"],
   [fails |-> FALSE, error |-> None, text |-> ""]}

(***************************************************************************)
(* Variant of OpenAIApi.chat that sends the seed in the request body.       *)
(***************************************************************************)
OpenAIApi_chat_SendsSeed(self, messages, config, seed, resp) ==
  IF config.model \notin gpt_models
  THEN Raised("Must provide an OpenAI model, got " \o config.model, <<>>, <<>>)
  ELSE
    LET formated_messages == [i \in 1..Len(messages) |-> to_openai_message(messages[i])]
        req == [via |-> "requests.post",
                url |-> self.endpoint \o "/chat/completions",
                json |-> [messages |-> formated_messages, model |-> config.model,
                          max_tokens |-> config.max_token,
                          temperature |-> config.temperature,
                          seed |-> seed],
                headers |-> [Authorization |-> "Bearer " \o self.api_key],
                timeout |-> self.timeout]
    IN  IF resp.fails THEN Raised(TransportError, <<req>>, <<>>)
        ELSE IF resp.error # None THEN Raised(resp.error[1], <<req>>, <<>>)
        ELSE Returned(resp.text, <<req>>, <<>>)

(***************************************************************************)
(* OpenAIApi                                                               *)
(***************************************************************************)
OpenAIApi_chat(self, messages, config, seed, resp) ==
  IF config.model \notin gpt_models
  THEN Raised("Must provide an OpenAI model, got " \o config.model, <<>>, <<>>)
  ELSE
    LET formated_messages == [i \in 1..Len(messages) |-> to_openai_message(messages[i])]
        req == [via |-> "requests.post",
                url |-> self.endpoint \o "/chat/completions",
                json |-> [messages |-> formated_messages, model |-> config.model,
                          max_tokens |-> config.max_token,
                          temperature |-> config.temperature],
                headers |-> [Authorization |-> "Bearer " \o self.api_key],
                timeout |-> self.timeout]
    IN  IF resp.fails THEN Raised(TransportError, <<req>>, <<>>)
        ELSE IF resp.error # None THEN Raised(resp.error[1], <<req>>, <<>>)
        ELSE Returned(resp.text, <<req>>, <<>>)

OpenAIApi_complete(self, prompt, config, seed, resp) ==
  OpenAIApi_chat(self, <<LLMMessage("user", prompt, None)>>, config, seed, resp)

(***************************************************************************)
(* Variants of the ClaudeApi methods with one defect each: the system      *)
(* message left in the message array; the request sent again after a       *)
(* transport failure; complete validated against the chat registry.        *)
(***************************************************************************)
ClaudeApi_chat_InlineSystem(self, messages, config, seed, resp) ==
  IF config.model \notin claude3_models
  THEN Raised("Must provide a Claude v3 model, got " \o config.model, <<>>, <<>>)
  ELSE
    LET system_message == SelectSeq(messages, LAMBDA m : m.role = "system")
        user_messages == messages
        formated_messages ==
          [i \in 1..Len(user_messages) |-> to_claude_message(user_messages[i])]
        req == [via |-> "requests.post",
                url |-> self.endpoint \o "/messages",
                json |-> [messages |-> formated_messages, model |-> config.model,
                          max_tokens |-> config.max_token,
                          temperature |-> config.temperature,
                          system |-> IF Len(system_message) > 0
                                     THEN Some(system_message[1].text) ELSE None],
                headers |-> [x_api_key |-> self.api_key,
                             anthropic_version |-> self.version],
                timeout |-> self.timeout]
    IN  IF resp.fails THEN Raised(TransportError, <<req>>, <<>>)
        ELSE IF resp.error # None THEN Raised(resp.error[1], <<req>>, <<>>)
        ELSE Returned(resp.text, <<req>>, <<>>)

ClaudeApi_chat_Retry(self, messages, config, seed, resp) ==
  IF config.model \notin claude3_models
  THEN Raised("Must provide a Claude v3 model, got " \o config.model, <<>>, <<>>)
  ELSE
    LET system_message == SelectSeq(messages, LAMBDA m : m.role = "system")
        user_messages == SelectSeq(messages, LAMBDA m : m.role # "system")
        formated_messages ==
          [i \in 1..Len(user_messages) |-> to_claude_message(user_messages[i])]
        req == [via |-> "requests.post",
                url |-> self.endpoint \o "/messages",
                json |-> [messages |-> formated_messages, model |-> config.model,
                          max_tokens |-> config.max_token,
                          temperature |-> config.temperature,
                          system |-> IF Len(system_message) > 0
                                     THEN Some(system_message[1].text) ELSE None],
                headers |-> [x_api_key |-> self.api_key,
                             anthropic_version |-> self.version],
                timeout |-> self.timeout]
    IN  IF resp.fails THEN Raised(TransportError, <<req, req>>, <<>>)
        ELSE IF resp.error # None THEN Raised(resp.error[1], <<req>>, <<>>)
        ELSE Returned(resp.text, <<req>>, <<>>)

ClaudeApi_complete_WrongRegistry(self, prompt, config, seed, resp) ==
  IF config.model \notin claude3_models
  THEN Raised("Must provide a Claude v2 model, got " \o config.model, <<>>, <<>>)
  ELSE
    LET req == [via |-> "requests.post",
                url |-> self.endpoint \o "/complete",
                json |-> [prompt |-> "\n\nHuman: " \o prompt \o "\n\nAssistant:",
                          max_tokens_to_sample |-> config.max_token,
                          temperature |-> config.temperature],
                headers |-> [x_api_key |-> self.api_key,
                             anthropic_version |-> self.version],
                timeout |-> self.timeout]
    IN  IF resp.fails THEN Raised(TransportError, <<req>>, <<>>)
        ELSE IF resp.error # None THEN Raised(resp.error[1], <<req>>, <<>>)
        ELSE Returned(resp.text, <<req>>, <<>>)

(***************************************************************************)
(* ClaudeApi                                                               *)
(***************************************************************************)
ClaudeApi_chat(self, messages, config, seed, resp) ==
  IF config.model \notin claude3_models
  THEN Raised("Must provide a Claude v3 model, got " \o config.model, <<>>, <<>>)
  ELSE
    LET system_message == SelectSeq(messages, LAMBDA m : m.role = "system")
        user_messages == SelectSeq(messages, LAMBDA m : m.role # "system")
        formated_messages ==
          [i \in 1..Len(user_messages) |-> to_claude_message(user_messages[i])]
        req == [via |-> "requests.post",
                url |-> self.endpoint \o "/messages",
                json |-> [messages |-> formated_messages, model |-> config.model,
                          max_tokens |-> config.max_token,
                          temperature |-> config.temperature,
                          system |-> IF Len(system_message) > 0
                                     THEN Some(system_message[1].text) ELSE None],
                headers |-> [x_api_key |-> self.api_key,
                             anthropic_version |-> self.version],
                timeout |-> self.timeout]
    IN  IF resp.fails THEN Raised(TransportError, <<req>>, <<>>)
        ELSE IF resp.error # None THEN Raised(resp.error[1], <<req>>, <<>>)
        ELSE Returned(resp.text, <<req>>, <<>>)

ClaudeApi_complete(self, prompt, config, seed, resp) ==
  IF config.model \notin claude2_models
  THEN Raised("Must provide a Claude v2 model, got " \o config.model, <<>>, <<>>)
  ELSE
    LET req == [via |-> "requests.post",
                url |-> self.endpoint \o "/complete",
                json |-> [prompt |-> "\n\nHuman: " \o prompt \o "\n\nAssistant:",
                          max_tokens_to_sample |-> config.max_token,
                          temperature |-> config.temperature],
                headers |-> [x_api_key |-> self.api_key,
                             anthropic_version |-> self.version],
                timeout |-> self.timeout]
    IN  IF resp.fails THEN Raised(TransportError, <<req>>, <<>>)
        ELSE IF resp.error # None THEN Raised(resp.error[1], <<req>>, <<>>)
        ELSE Returned(resp.text, <<req>>, <<>>)

(***************************************************************************)
(* Variants of the AwsBedrockMistralApi methods with one defect each: chat *)
(* invoking the gateway with the last message; complete not looking for an *)
(* error object in the response.                                           *)
(***************************************************************************)
AwsBedrockMistralApi_chat_Invokes(self, messages, config, seed, resp) ==
  LET req == [via |-> "invoke_model",
              client |-> self.bedrock_runtime,
              body |-> [prompt |-> "<s>[INST]" \o messages[Len(messages)].text \o "[/INST]",
                        max_tokens |-> config.max_token,
                        temperature |-> config.temperature],
              modelId |-> config.model]
  IN  IF resp.fails THEN Raised(TransportError, <<req>>, <<>>)
      ELSE IF resp.error # None THEN Raised(resp.error[1], <<req>>, <<>>)
      ELSE Returned(resp.text, <<req>>, <<>>)

AwsBedrockMistralApi_complete_NoErrorCheck(self, prompt, config, seed, resp) ==
  IF config.model \notin bedrock_mistral_models
  THEN Raised("Must provide a Mistral model, got " \o config.model, <<>>, <<>>)
  ELSE
    LET req == [via |-> "invoke_model",
                client |-> self.bedrock_runtime,
                body |-> [prompt |-> "<s>[INST]" \o prompt \o "[/INST]",
                          max_tokens |-> config.max_token,
                          temperature |-> config.temperature],
                modelId |-> config.model]
    IN  IF resp.fails THEN Raised(TransportError, <<req>>, <<>>)
        ELSE Returned(resp.text, <<req>>, <<>>)

(***************************************************************************)
(* AwsBedrockMistralApi                                                    *)
(***************************************************************************)
AwsBedrockMistralApi_chat(self, messages, config, seed, resp) ==
  Raised("Mistral doesn't support chat API", <<>>, <<>>)

AwsBedrockMistralApi_complete(self, prompt, config, seed, resp) ==
  IF config.model \notin bedrock_mistral_models
  THEN Raised("Must provide a Mistral model, got " \o config.model, <<>>, <<>>)
  ELSE
    LET req == [via |-> "invoke_model",
                client |-> self.bedrock_runtime,
                body |-> [prompt |-> "<s>[INST]" \o prompt \o "[/INST]",
                          max_tokens |-> config.max_token,
                          temperature |-> config.temperature],
                modelId |-> config.model]
    IN  IF resp.fails THEN Raised(TransportError, <<req>>, <<>>)
        ELSE IF resp.error # None THEN Raised(resp.error[1], <<req>>, <<>>)
        ELSE Returned(resp.text, <<req>>, <<>>)

(***************************************************************************)
(* AwsBedrockClaudeApi                                                     *)
(***************************************************************************)
AwsBedrockClaudeApi_chat(self, messages, config, seed, resp) ==
  IF config.model \notin bedrock_claude3_models
  THEN Raised("Must provide a Claude v3 model, got " \o config.model, <<>>, <<>>)
  ELSE
    LET system_message == SelectSeq(messages, LAMBDA m : m.role = "system")
        user_messages == SelectSeq(messages, LAMBDA m : m.role # "system")
        formated_messages ==
          [i \in 1..Len(user_messages) |-> to_claude_message(user_messages[i])]
        req == [via |-> "invoke_model",
                client |-> self.bedrock_runtime,
                body |-> [anthropic_version |-> self.version,
                          messages |-> formated_messages,
                          max_tokens |-> config.max_token,
                          temperature |-> config.temperature,
                          system |-> IF Len(system_message) > 0
                                     THEN Some(system_message[1].text) ELSE None],
                modelId |-> config.model]
    IN  IF resp.fails THEN Raised(TransportError, <<req>>, <<>>)
        ELSE IF resp.error # None THEN Raised(resp.error[1], <<req>>, <<>>)
        ELSE Returned(resp.text, <<req>>, <<>>)

AwsBedrockClaudeApi_complete(self, prompt, config, seed, resp) ==
  IF config.model \notin bedrock_claude2_models
  THEN Raised("Must provide a Claude v2 model, got " \o config.model, <<>>, <<>>)
  ELSE
    LET req == [via |-> "invoke_model",
                client |-> self.bedrock_runtime,
                body |-> [prompt |-> "\n\nHuman: " \o prompt \o "\n\nAssistant:",
                          max_tokens_to_sample |-> config.max_token,
                          temperature |-> config.temperature],
                modelId |-> config.model]
    IN  IF resp.fails THEN Raised(TransportError, <<req>>, <<>>)
        ELSE IF resp.error # None THEN Raised(resp.error[1], <<req>>, <<>>)
        ELSE Returned(resp.text, <<req>>, <<>>)

(***************************************************************************)
(* Variant of GeminiApi.chat that seeds the session with every message,    *)
(* the last one included.                                                  *)
(***************************************************************************)
GeminiApi_chat_FullHistory(self, messages, config, seed, resp) ==
  IF config.model \notin gemini_models
  THEN Raised("Must provide a Gemini model, got " \o config.model, <<>>, <<>>)
  ELSE
    LET system_message == SelectSeq(messages, LAMBDA m : m.role = "system")
        user_messages == SelectSeq(messages, LAMBDA m : m.role # "system")
        model == [model_name |-> config.model,
                  system_instruction |-> IF Len(system_message) > 0
                                         THEN Some(system_message[1].text) ELSE None]
        generation_config == [max_output_tokens |-> config.max_token,
                              temperature |-> config.temperature]
        finish(requests, sessions) ==
          IF resp.fails THEN Raised(TransportError, requests, sessions)
          ELSE IF resp.text = ""
          THEN Raised("Gemini API returned empty response", requests, sessions)
          ELSE Returned(resp.text, requests, sessions)
    IN  IF Len(user_messages) = 1 /\ user_messages[1].role = "user"
        THEN
          LET m == user_messages[1]
              imgs == IF HasImages(m)
                      THEN [i \in 1..Len(m.images[1]) |->
                              [mime_type |-> "image/png",
                               data |-> b64decode(m.images[1][i])]]
                      ELSE <<>>
              req == [via |-> "generate_content", model |-> model,
                      parts |-> <<m.text>> \o imgs,
                      generation_config |-> generation_config]
          IN  finish(<<req>>, <<>>)
        ELSE
          LET formatted_messages ==
                [i \in 1..Len(user_messages) |-> to_gemini_message(user_messages[i])]
              chat == [model |-> model,
                       history |-> formatted_messages]
          IN  IF Len(formatted_messages) = 0
              THEN Raised("list index out of range", <<>>, <<chat>>)
              ELSE
                LET last_message == formatted_messages[Len(formatted_messages)]
                    req == [via |-> "send_message", chat |-> chat,
                            parts |-> last_message.parts,
                            generation_config |-> generation_config]
                IN  finish(<<req>>, <<chat>>)

(***************************************************************************)
(* GeminiApi.  GenerativeModel(...), GenerationConfig(...) and start_chat  *)
(* build local handles; generate_content and send_message are the          *)
(* requests.  The response is read through response.text only.             *)
(***************************************************************************)
GeminiApi_chat(self, messages, config, seed, resp) ==
  IF config.model \notin gemini_models
  THEN Raised("Must provide a Gemini model, got " \o config.model, <<>>, <<>>)
  ELSE
    LET system_message == SelectSeq(messages, LAMBDA m : m.role = "system")
        user_messages == SelectSeq(messages, LAMBDA m : m.role # "system")
        model == [model_name |-> config.model,
                  system_instruction |-> IF Len(system_message) > 0
                                         THEN Some(system_message[1].text) ELSE None]
        generation_config == [max_output_tokens |-> config.max_token,
                              temperature |-> config.temperature]
        finish(requests, sessions) ==
          IF resp.fails THEN Raised(TransportError, requests, sessions)
          ELSE IF resp.text = ""
          THEN Raised("Gemini API returned empty response", requests, sessions)
          ELSE Returned(resp.text, requests, sessions)
    IN  IF Len(user_messages) = 1 /\ user_messages[1].role = "user"
        THEN
          LET m == user_messages[1]
              imgs == IF HasImages(m)
                      THEN [i \in 1..Len(m.images[1]) |->
                              [mime_type |-> "image/png",
                               data |-> b64decode(m.images[1][i])]]
                      ELSE <<>>
              req == [via |-> "generate_content", model |-> model,
                      parts |-> <<m.text>> \o imgs,
                      generation_config |-> generation_config]
          IN  finish(<<req>>, <<>>)
        ELSE
          LET formatted_messages ==
                [i \in 1..Len(user_messages) |-> to_gemini_message(user_messages[i])]
              chat == [model |-> model,
                       history |-> SubSeq(formatted_messages, 1,
                                          Len(formatted_messages) - 1)]
          IN  IF Len(formatted_messages) = 0
              THEN Raised("list index out of range", <<>>, <<chat>>)
              ELSE
                LET last_message == formatted_messages[Len(formatted_messages)]
                    req == [via |-> "send_message", chat |-> chat,
                            parts |-> last_message.parts,
                            generation_config |-> generation_config]
                IN  finish(<<req>>, <<chat>>)

GeminiApi_complete(self, prompt, config, seed, resp) ==
  GeminiApi_chat(self, <<LLMMessage("user", prompt, None)>>, config, seed, resp)

(***************************************************************************)
(* LLMChatNode.chat and LLMCompletionNode.chat: api.chat / api.complete on *)
(* whichever adapter object is connected.                                  *)
(***************************************************************************)
LLMChatNode_chat(messages, api, config, seed, resp) ==
  CASE api.class = "OpenAIApi" -> OpenAIApi_chat(api, messages, config, seed, resp)
    [] api.class = "ClaudeApi" -> ClaudeApi_chat(api, messages, config, seed, resp)
    [] api.class = "AwsBedrockMistralApi" ->
         AwsBedrockMistralApi_chat(api, messages, config, seed, resp)
    [] api.class = "AwsBedrockClaudeApi" ->
         AwsBedrockClaudeApi_chat(api, messages, config, seed, resp)
    [] api.class = "GeminiApi" -> GeminiApi_chat(api, messages, config, seed, resp)

LLMCompletionNode_chat(prompt, api, config, seed, resp) ==
  CASE api.class = "OpenAIApi" -> OpenAIApi_complete(api, prompt, config, seed, resp)
    [] api.class = "ClaudeApi" -> ClaudeApi_complete(api, prompt, config, seed, resp)
    [] api.class = "AwsBedrockMistralApi" ->
         AwsBedrockMistralApi_complete(api, prompt, config, seed, resp)
    [] api.class = "AwsBedrockClaudeApi" ->
         AwsBedrockClaudeApi_complete(api, prompt, config, seed, resp)
    [] api.class = "GeminiApi" -> GeminiApi_complete(api, prompt, config, seed, resp)

(***************************************************************************)
(* Inputs of the dispatch nodes: one adapter object of each class, as its  *)
(* constructor leaves it; model ids, one of each registry and one of none; *)
(* a prompt; seeds.                                                        *)
(***************************************************************************)
Apis ==
  {[class |-> "OpenAIApi", api_key |-> "sk-openai",
    endpoint |-> "https://api.openai.com/v1", timeout |-> 60],
   [class |-> "ClaudeApi", api_key |-> "sk-ant",
    endpoint |-> "https://api.anthropic.com/v1", version |-> "2023-06-01",
    timeout |-> 60],
   [class |-> "AwsBedrockMistralApi", aws_access_key_id |-> "AKIA",
    aws_secret_access_key |-> "secret", aws_session_token |-> None,
    region |-> "us-east-1", timeout |-> 60,
    bedrock_runtime |-> [service_name |-> "bedrock-runtime", region_name |-> "us-east-1"]],
   [class |-> "AwsBedrockClaudeApi", aws_access_key_id |-> "AKIA",
    aws_secret_access_key |-> "secret", aws_session_token |-> None,
    region |-> "us-east-1", version |-> "bedrock-2023-05-31", timeout |-> 60,
    bedrock_runtime |-> [service_name |-> "bedrock-runtime", region_name |-> "us-east-1"]],
   [class |-> "GeminiApi", api_key |-> "g-key", timeout |-> 60]}

TestModels ==
  {"gpt-4o", "claude-3-haiku-20240307", "claude-2.1",
   "anthropic.claude-3-haiku-20240307-v1:0", "anthropic.claude-v2",
   "mistral.mistral-7b-instruct-v0:2", "gemini-1.5-pro", "llama-3"}

TestPrompt == "Hello"

Seeds == {0, 7}

(* LLMApiConfigNode.make_config with the node's default token budget and   *)
(* temperature.                                                            *)
make_config(max_token, model, temperature) == LLMConfig(model, max_token, temperature)

(***************************************************************************)
(* The process environment.  A variable is unset (None) or set to a        *)
(* string, possibly the empty one.  os.environ.get(name, default).         *)
(***************************************************************************)
EnvNames ==
  {"OPENAI_API_KEY", "ANTHROPIC_API_KEY", "CLAUDE_API_KEY", "AWS_ACCESS_KEY_ID",
   "AWS_SECRET_ACCESS_KEY", "AWS_SESSION_TOKEN", "GOOGLE_API_KEY"}

os_environ_get(name, default) == IF environ[name] # None THEN environ[name] ELSE default

(* Python's `not x` for an Optional[str]: None or the empty string.        *)
Falsy(x) == x = None \/ x = Some("")

(***************************************************************************)
(* Constructors of the adapter classes: the object built, and the packages *)
(* ensure_package was asked for while building it.                         *)
(***************************************************************************)
OpenAIApi(api_key, endpoint) ==
  [self |-> [class |-> "OpenAIApi", api_key |-> api_key, endpoint |-> endpoint,
             timeout |-> 60],
   ensured |-> <<>>]

ClaudeApi(api_key, endpoint, version) ==
  [self |-> [class |-> "ClaudeApi", api_key |-> api_key, endpoint |-> endpoint,
             version |-> version, timeout |-> 60],
   ensured |-> <<>>]

AwsBedrockMistralApi(aws_access_key_id, aws_secret_access_key, aws_session_token, region) ==
  [self |-> [class |-> "AwsBedrockMistralApi",
             aws_access_key_id |-> aws_access_key_id,
             aws_secret_access_key |-> aws_secret_access_key,
             aws_session_token |-> aws_session_token,
             region |-> region, timeout |-> 60,
             bedrock_runtime |-> [service_name |-> "bedrock-runtime",
                                  aws_access_key_id |-> aws_access_key_id,
                                  aws_secret_access_key |-> aws_secret_access_key,
                                  aws_session_token |-> aws_session_token,
                                  region_name |-> region]],
   ensured |-> <<"boto3">>]

AwsBedrockClaudeApi(aws_access_key_id, aws_secret_access_key, aws_session_token, region, version) ==
  [self |-> [class |-> "AwsBedrockClaudeApi",
             aws_access_key_id |-> aws_access_key_id,
             aws_secret_access_key |-> aws_secret_access_key,
             aws_session_token |-> aws_session_token,
             region |-> region, version |-> version, timeout |-> 60,
             bedrock_runtime |-> [service_name |-> "bedrock-runtime",
                                  aws_access_key_id |-> aws_access_key_id,
                                  aws_secret_access_key |-> aws_secret_access_key,
                                  aws_session_token |-> aws_session_token,
                                  region_name |-> region]],
   ensured |-> <<"boto3">>]

GeminiApi(api_key) ==
  [self |-> [class |-> "GeminiApi", api_key |-> api_key, timeout |-> 60,
             genai |-> [configured_api_key |-> api_key]],
   ensured |-> <<"google-generativeai">>]

(***************************************************************************)
(* Outcome of create_api: the adapter returned or the exception raised.    *)
(* Credentials are Optional strings, as the arguments and os.environ.get   *)
(* give them.                                                              *)
(***************************************************************************)
Created(built) ==
  [status |-> "returned", api |-> Some(built.self), error |-> None,
   ensured |-> built.ensured]

CreateRaised(message) ==
  [status |-> "raised", api |-> None, error |-> Some(message), ensured |-> <<>>]

(***************************************************************************)
(* Variant of OpenAIApiNode.create_api that reads the environment first    *)
(* and the caller's key only when the variable gives nothing.              *)
(***************************************************************************)
OpenAIApiNode_create_api_EnvFirst(openai_api_key, endpoint) ==
  LET fromEnv == os_environ_get("OPENAI_API_KEY", None)
      key == IF Falsy(fromEnv) THEN openai_api_key ELSE fromEnv
  IN  IF Falsy(key) THEN CreateRaised("OpenAI API key is required.")
      ELSE Created(OpenAIApi(key[1], endpoint))

OpenAIApiNode_create_api(openai_api_key, endpoint) ==
  LET key == IF Falsy(openai_api_key) THEN os_environ_get("OPENAI_API_KEY", None)
             ELSE openai_api_key
  IN  IF Falsy(key) THEN CreateRaised("OpenAI API key is required.")
      ELSE Created(OpenAIApi(key[1], endpoint))

ClaudeApiNode_create_api(claude_api_key, endpoint, version) ==
  LET key == IF Falsy(claude_api_key)
             THEN os_environ_get("ANTHROPIC_API_KEY",
                                 os_environ_get("CLAUDE_API_KEY", None))
             ELSE claude_api_key
  IN  IF Falsy(key) THEN CreateRaised("Anthropic API key is required.")
      ELSE Created(ClaudeApi(key[1], endpoint, version))

AwsBedrockMistralApiNode_create_api(aws_access_key_id, aws_secret_access_key, aws_session_token, region) ==
  LET id == IF Falsy(aws_access_key_id) THEN os_environ_get("AWS_ACCESS_KEY_ID", None)
            ELSE aws_access_key_id
      secret == IF Falsy(aws_secret_access_key)
                THEN os_environ_get("AWS_SECRET_ACCESS_KEY", None)
                ELSE aws_secret_access_key
      token == IF Falsy(aws_session_token) THEN os_environ_get("AWS_SESSION_TOKEN", None)
               ELSE aws_session_token
  IN  IF Falsy(id) \/ Falsy(secret) THEN CreateRaised("AWS credentials is required.")
      ELSE Created(AwsBedrockMistralApi(id[1], secret[1], token, region))

AwsBedrockClaudeApiNode_create_api(aws_access_key_id, aws_secret_access_key, aws_session_token, region, version) ==
  LET id == IF Falsy(aws_access_key_id) THEN os_environ_get("AWS_ACCESS_KEY_ID", None)
            ELSE aws_access_key_id
      secret == IF Falsy(aws_secret_access_key)
                THEN os_environ_get("AWS_SECRET_ACCESS_KEY", None)
                ELSE aws_secret_access_key
      token == IF Falsy(aws_session_token) THEN os_environ_get("AWS_SESSION_TOKEN", None)
               ELSE aws_session_token
  IN  IF Falsy(id) \/ Falsy(secret) THEN CreateRaised("AWS credentials is required.")
      ELSE Created(AwsBedrockClaudeApi(id[1], secret[1], token, region, version))

GeminiApiNode_create_api(google_api_key) ==
  LET key == IF Falsy(google_api_key) THEN os_environ_get("GOOGLE_API_KEY", None)
             ELSE google_api_key
  IN  IF Falsy(key) THEN CreateRaised("Google API key is required.")
      ELSE Created(GeminiApi(key[1]))

(***************************************************************************)
(* Inputs of the adapter-creation nodes: a string widget left empty or     *)
(* filled in; an environment variable unset, set empty or set to a value   *)
(* of its own.                                                             *)
(***************************************************************************)
ArgValues(param) == {Some(""), Some("arg:" \o param)}

EnvValues(name) == {None, Some(""), Some("env:" \o name)}

IdleCreate ==
  [status |-> "idle", node |-> "", args |-> [none |-> None], api |-> None,
   error |-> None, ensured |-> <<>>]

CreateRecord(node, args, r) ==
  [status |-> r.status, node |-> node, args |-> args, api |-> r.api,
   error |-> r.error, ensured |-> r.ensured]

IdleCall ==
  [status |-> "idle", api |-> "", op |-> "", model |-> "", seed |-> 0,
   messages |-> <<>>, prompt |-> "", response |-> None, text |-> None, error |-> None,
   requests |-> <<>>, sessions |-> <<>>]

(* What `call` keeps of an adapter call: its inputs, the vendor's answer   *)
(* when a request was sent, and the outcome.                               *)
CallRecord(api, op, model, seed, messages, prompt, resp, r) ==
  [status |-> r.status, api |-> api.class, op |-> op, model |-> model, seed |-> seed,
   messages |-> messages, prompt |-> prompt,
   response |-> IF r.requests # <<>> THEN Some(resp) ELSE None,
   text |-> r.text, error |-> r.error,
   requests |-> r.requests, sessions |-> r.sessions]

Init ==
  /\ lists = <<>>
  /\ mk = [status |-> "idle", role |-> "user", image |-> None, in |-> 0, pre |-> <<>>,
           out |-> 0, error |-> ""]
  /\ call = IdleCall
  /\ environ = [name \in EnvNames |-> None]
  /\ created = IdleCreate

(***************************************************************************)
(* One execution of a message node on the list `messages` (0: no list      *)
(* connected).  mk keeps the call's inputs, a snapshot of the input list   *)
(* taken before the call, and what the call returned.                      *)
(***************************************************************************)
MakeMessage(role, image, messages) ==
  /\ Len(lists) < MaxLists
  /\ messages # 0 => Len(lists[messages]) < MaxLists
  /\ LET r == make_message(role, NodeText(Len(lists) + 1), image, messages)
     IN  /\ lists' = r.heap
         /\ mk' = [status |-> IF r.raised THEN "raised" ELSE "ok",
                   role |-> role, image |-> image, in |-> messages,
                   pre |-> IF messages = 0 THEN <<>> ELSE lists[messages],
                   out |-> r.out, error |-> r.error]
  /\ UNCHANGED <<call, environ, created>>

Next ==
  \E role \in LLMMessageRole, image \in TestImages, messages \in 0..Len(lists) :
    MakeMessage(role, image, messages)

Spec == Init /\ [][Next]_vars

(***************************************************************************)
(* One run of a workflow: message nodes chained one after the other, each  *)
(* fed the list the previous one returned, then one chat or completion     *)
(* node run on the conversation built so far.  An adapter keeps no state   *)
(* from one call to the next, so one call per run shows every call.        *)
(***************************************************************************)
ChainMessage(role, image) ==
  /\ call.status = "idle"
  /\ MakeMessage(role, image, Len(lists))

Chat(api, model, seed, resp) ==
  /\ call.status = "idle"
  /\ Len(lists) > 0
  /\ LET messages == lists[Len(lists)]
         r == LLMChatNode_chat(messages, api, make_config(1024, model, 0), seed, resp)
     IN  call' = CallRecord(api, "chat", model, seed, messages, "", resp, r)
  /\ UNCHANGED <<lists, mk, environ, created>>

Complete(api, model, seed, resp) ==
  /\ call.status = "idle"
  /\ LET r == LLMCompletionNode_chat(TestPrompt, api, make_config(1024, model, 0),
                                     seed, resp)
     IN  call' = CallRecord(api, "complete", model, seed, <<>>, TestPrompt, resp, r)
  /\ UNCHANGED <<lists, mk, environ, created>>

NextApi ==
  \/ \E role \in LLMMessageRole, image \in TestImages : ChainMessage(role, image)
  \/ \E api \in Apis, model \in TestModels, seed \in Seeds, resp \in Responses :
       Chat(api, model, seed, resp)
  \/ \E api \in Apis, model \in TestModels, seed \in Seeds, resp \in Responses :
       Complete(api, model, seed, resp)

ApiSpec == Init /\ [][NextApi]_vars

(***************************************************************************)
(* One run of an adapter-creation node: the host's environment is set up,  *)
(* then create_api runs once.                                              *)
(***************************************************************************)
SetEnv(name, value) ==
  /\ created.status = "idle"
  /\ environ' = [environ EXCEPT ![name] = value]
  /\ UNCHANGED <<lists, mk, call, created>>

CreateOpenAI(key) ==
  /\ created.status = "idle"
  /\ created' = CreateRecord("OpenAIApiNode", [openai_api_key |-> key],
                  OpenAIApiNode_create_api(key, "https://api.openai.com/v1"))
  /\ UNCHANGED <<lists, mk, call, environ>>

CreateClaude(key) ==
  /\ created.status = "idle"
  /\ created' = CreateRecord("ClaudeApiNode", [claude_api_key |-> key],
                  ClaudeApiNode_create_api(key, "https://api.anthropic.com/v1",
                                           "2023-06-01"))
  /\ UNCHANGED <<lists, mk, call, environ>>

CreateBedrockMistral(id, secret, token) ==
  /\ created.status = "idle"
  /\ created' = CreateRecord("AwsBedrockMistralApiNode",
                  [aws_access_key_id |-> id, aws_secret_access_key |-> secret,
                   aws_session_token |-> token],
                  AwsBedrockMistralApiNode_create_api(id, secret, token, "us-east-1"))
  /\ UNCHANGED <<lists, mk, call, environ>>

CreateBedrockClaude(id, secret, token) ==
  /\ created.status = "idle"
  /\ created' = CreateRecord("AwsBedrockClaudeApiNode",
                  [aws_access_key_id |-> id, aws_secret_access_key |-> secret,
                   aws_session_token |-> token],
                  AwsBedrockClaudeApiNode_create_api(id, secret, token, "us-east-1",
                                                     "bedrock-2023-05-31"))
  /\ UNCHANGED <<lists, mk, call, environ>>

CreateGemini(key) ==
  /\ created.status = "idle"
  /\ created' = CreateRecord("GeminiApiNode", [google_api_key |-> key],
                  GeminiApiNode_create_api(key))
  /\ UNCHANGED <<lists, mk, call, environ>>

NextNode ==
  \/ \E name \in EnvNames : \E value \in EnvValues(name) : SetEnv(name, value)
  \/ \E key \in ArgValues("openai_api_key") : CreateOpenAI(key)
  \/ \E key \in ArgValues("claude_api_key") : CreateClaude(key)
  \/ \E id \in ArgValues("aws_access_key_id"),
        secret \in ArgValues("aws_secret_access_key"),
        token \in ArgValues("aws_session_token") : CreateBedrockMistral(id, secret, token)
  \/ \E id \in ArgValues("aws_access_key_id"),
        secret \in ArgValues("aws_secret_access_key"),
        token \in ArgValues("aws_session_token") : CreateBedrockClaude(id, secret, token)
  \/ \E key \in ArgValues("google_api_key") : CreateGemini(key)

NodeSpec == Init /\ [][NextNode]_vars

(***************************************************************************)
(* Vocabulary of the properties below, stated on conversations and on the  *)
(* recorded call rather than through the adapters' own definitions.        *)
(***************************************************************************)
SystemIndices(conv) == {i \in 1..Len(conv) : conv[i].role = "system"}

RECURSIVE WithoutSystem(_)
WithoutSystem(conv) ==
  IF conv = <<>> THEN <<>>
  ELSE IF conv[1].role = "system" THEN WithoutSystem(Tail(conv))
  ELSE <<conv[1]>> \o WithoutSystem(Tail(conv))

ImagesOf(m) == IF m.images = None THEN <<>> ELSE m.images[1]

IsClaudeChat ==
  /\ call.status # "idle"
  /\ call.api \in {"ClaudeApi", "AwsBedrockClaudeApi"}
  /\ call.op = "chat"

(* The JSON body of the one request a Claude chat sent. *)
ClaudeBody ==
  IF call.requests[1].via = "requests.post" THEN call.requests[1].json
  ELSE call.requests[1].body

(* The registry each validating operation checks. *)
RegistryChecked(api, op) ==
  CASE api = "OpenAIApi" -> gpt_models
    [] api = "ClaudeApi" /\ op = "chat" -> claude3_models
    [] api = "ClaudeApi" /\ op = "complete" -> claude2_models
    [] api = "AwsBedrockClaudeApi" /\ op = "chat" -> bedrock_claude3_models
    [] api = "AwsBedrockClaudeApi" /\ op = "complete" -> bedrock_claude2_models
    [] api = "AwsBedrockMistralApi" /\ op = "complete" -> bedrock_mistral_models
    [] api = "GeminiApi" -> gemini_models

Validates(api, op) == ~(api = "AwsBedrockMistralApi" /\ op = "chat")

IsModelMismatch(error, model) ==
  /\ error # None
  /\ \E family \in {"an OpenAI", "a Claude v3", "a Claude v2", "a Mistral", "a Gemini"} :
       error[1] = "Must provide " \o family \o " model, got " \o model

(***************************************************************************)
(* C1.  Starting from an empty conversation, every list make_message has   *)
(* returned holds at most one system-role message, and a make_message call *)
(* with role system on a list that already holds a system message raised   *)
(* and returned no list.                                                   *)
(***************************************************************************)
C1_AtMostOneSystem ==
  /\ \A k \in 1..Len(lists) : Cardinality(SystemIndices(lists[k])) <= 1
  /\ (mk.status # "idle" /\ mk.role = "system" /\ SystemIndices(mk.pre) # {})
       => (mk.status = "raised" /\ mk.out = 0)

C1_Witness ==
  /\ mk.status = "raised"
  /\ mk.role = "system"
  /\ mk.image = None
  /\ mk.in # 0
  /\ SystemIndices(mk.pre) # {}
  /\ Len(mk.pre) >= 2

(***************************************************************************)
(* C10.  make_message never changes the list it is given: after a call,    *)
(* successful or failed, the input list is what it was before, and on      *)
(* success the returned list is another list, equal to the input list      *)
(* followed by exactly one new message (of the role and text given).       *)
(***************************************************************************)
C10_InputListUnchanged ==
  mk.status # "idle" =>
    /\ mk.in # 0 => lists[mk.in] = mk.pre
    /\ mk.status = "ok" =>
         /\ mk.out \in 1..Len(lists)
         /\ mk.out # mk.in
         /\ Len(lists[mk.out]) = Len(mk.pre) + 1
         /\ SubSeq(lists[mk.out], 1, Len(mk.pre)) = mk.pre
         /\ lists[mk.out][Len(mk.pre) + 1].role = mk.role
    /\ mk.status = "raised" => mk.out = 0

C10_Witness ==
  /\ mk.status = "ok"
  /\ mk.in # 0
  /\ Len(mk.pre) >= 1
  /\ mk.in < Len(lists) - 1

(***************************************************************************)
(* C2.  For every adapter and each of its operations that validates a      *)
(* model, a call whose config.model is not in the registry the operation   *)
(* checks fails with a model-mismatch error and sends no request.          *)
(***************************************************************************)
C2_MismatchBeforeRequest ==
  (/\ call.status # "idle"
   /\ Validates(call.api, call.op)
   /\ call.model \notin RegistryChecked(call.api, call.op))
    => /\ call.status = "raised"
       /\ call.text = None
       /\ IsModelMismatch(call.error, call.model)
       /\ Len(call.requests) = 0

C2_Witness ==
  /\ call.status = "raised"
  /\ call.api = "ClaudeApi"
  /\ call.op = "complete"
  /\ call.model = "claude-3-haiku-20240307"
  /\ Len(call.requests) = 0

(***************************************************************************)
(* C3.  For every non-system message with text t and images i1..in, the    *)
(* Claude serialization yields a content list in which the n image blocks  *)
(* come first, in the order in, ..., i1, and the text block comes last.    *)
(***************************************************************************)
C3_ImagesReversedBeforeText ==
  (IsClaudeChat /\ Len(call.requests) = 1) =>
    LET sent == ClaudeBody.messages
        conv == WithoutSystem(call.messages)
    IN  /\ Len(sent) = Len(conv)
        /\ \A j \in 1..Len(conv) :
             LET imgs == ImagesOf(conv[j])
                 n == Len(imgs)
                 content == sent[j].content
             IN  /\ Len(content) = n + 1
                 /\ content[n + 1].type = "text"
                 /\ content[n + 1].text = conv[j].text
                 /\ \A i \in 1..n :
                      /\ content[i].type = "image"
                      /\ content[i].source.data = imgs[n + 1 - i]

(***************************************************************************)
(* C4.  For every conversation with at most one system message passed to   *)
(* ClaudeApi.chat or AwsBedrockClaudeApi.chat with a valid model, the      *)
(* request body carries the system message's text in its top-level system  *)
(* field, and its messages array holds exactly the non-system messages in  *)
(* their original relative order, none of role system.                     *)
(***************************************************************************)
C4_SystemHoisted ==
  (IsClaudeChat /\ call.model \in RegistryChecked(call.api, call.op)) =>
    /\ Len(call.requests) = 1
    /\ LET sent == ClaudeBody.messages
           conv == WithoutSystem(call.messages)
           sys == SystemIndices(call.messages)
       IN  /\ ClaudeBody.system =
                IF sys = {} THEN None
                ELSE Some(call.messages[CHOOSE i \in sys : TRUE].text)
           /\ Len(sent) = Len(conv)
           /\ \A j \in 1..Len(conv) :
                /\ sent[j].role = conv[j].role
                /\ sent[j].role # "system"
                /\ {sent[j].content[i].text :
                      i \in {i \in 1..Len(sent[j].content) :
                               sent[j].content[i].type = "text"}}
                   = {conv[j].text}

C4_Witness ==
  /\ IsClaudeChat
  /\ Len(call.requests) = 1
  /\ Len(call.messages) = 3
  /\ call.messages[2].role = "system"
  /\ ClaudeBody.system = Some(call.messages[2].text)
  /\ Len(ClaudeBody.messages) = 2

(***************************************************************************)
(* C5.  OpenAIApi.chat serializes every message of the conversation, in    *)
(* conversation order, to {role, content}: content's first element is the  *)
(* text block, followed by one image_url block per image in the original   *)
(* image order, so len(content) = 1 + number of images.                    *)
(***************************************************************************)
C5_OpenAITextThenImages ==
  (call.status # "idle" /\ call.api = "OpenAIApi" /\ call.op = "chat"
     /\ call.model \in gpt_models) =>
    /\ Len(call.requests) = 1
    /\ LET sent == call.requests[1].json.messages
           conv == call.messages
       IN  /\ Len(sent) = Len(conv)
           /\ \A j \in 1..Len(conv) :
                LET imgs == ImagesOf(conv[j])
                    content == sent[j].content
                IN  /\ sent[j].role = conv[j].role
                    /\ Len(content) = 1 + Len(imgs)
                    /\ content[1] = [type |-> "text", text |-> conv[j].text]
                    /\ \A i \in 1..Len(imgs) :
                         /\ content[1 + i].type = "image_url"
                         /\ content[1 + i].image_url.url
                              = "data:image/png;base64," \o imgs[i]

C5_Witness ==
  /\ call.status = "returned"
  /\ call.api = "OpenAIApi"
  /\ call.op = "chat"
  /\ Len(call.messages) = 3
  /\ \E j \in 1..3 :
       /\ Len(ImagesOf(call.messages[j])) = 2
       /\ ImagesOf(call.messages[j])[1] # ImagesOf(call.messages[j])[2]
  /\ \E j \in 1..3 : call.messages[j].role = "system"

(***************************************************************************)
(* C6.  Vocabulary: a GeminiApi.chat call that passed validation, the      *)
(* non-system messages of its conversation, and the role and parts Gemini  *)
(* is to be given for a message.                                           *)
(***************************************************************************)
IsGeminiChat ==
  /\ call.status # "idle"
  /\ call.api = "GeminiApi"
  /\ call.op = "chat"
  /\ call.model \in gemini_models

GeminiRole(m) == IF m.role = "user" THEN "user" ELSE "model"

SentPartsOf(parts, m) ==
  /\ Len(parts) = 1 + Len(ImagesOf(m))
  /\ parts[1] = m.text
  /\ \A i \in 1..Len(ImagesOf(m)) :
       parts[1 + i] = [mime_type |-> "image/png", data |-> [bytes |-> ImagesOf(m)[i]]]

SingleShot(turns) ==
  /\ Len(call.requests) = 1
  /\ call.requests[1].via = "generate_content"
  /\ SentPartsOf(call.requests[1].parts, turns[1])
  /\ call.sessions = <<>>

SessionWithHistory(turns) ==
  /\ Len(call.sessions) = 1
  /\ Len(call.sessions[1].history) = Len(turns) - 1
  /\ \A i \in 1..(Len(turns) - 1) :
       /\ call.sessions[1].history[i].role = GeminiRole(turns[i])
       /\ SentPartsOf(call.sessions[1].history[i].parts, turns[i])
  /\ Len(call.requests) = 1
  /\ call.requests[1].via = "send_message"
  /\ call.requests[1].chat = call.sessions[1]
  /\ SentPartsOf(call.requests[1].parts, turns[Len(turns)])

(***************************************************************************)
(* C6 as stated.  For every conversation passed to GeminiApi.chat with a   *)
(* valid model: if its non-system messages are exactly one user turn, the  *)
(* single-shot generate call is used and no session is started; otherwise  *)
(* a session is started whose history is all non-system messages but the   *)
(* last (history length = number of non-system messages minus one, role    *)
(* user kept, any other role mapped to model) and only the last message's  *)
(* parts are sent.                                                         *)
(***************************************************************************)
C6_Original ==
  IsGeminiChat =>
    LET turns == WithoutSystem(call.messages)
    IN  IF Len(turns) = 1 /\ turns[1].role = "user"
        THEN SingleShot(turns)
        ELSE SessionWithHistory(turns)

(***************************************************************************)
(* C6 as amended.  As stated when the conversation has at least one        *)
(* non-system message.  When it has none (only a system message), a        *)
(* session with an empty history is started, nothing is sent and the call  *)
(* fails.                                                                  *)
(***************************************************************************)
C6_GeminiRouting ==
  IsGeminiChat =>
    LET turns == WithoutSystem(call.messages)
    IN  IF Len(turns) = 0
        THEN /\ Len(call.sessions) = 1
             /\ call.sessions[1].history = <<>>
             /\ call.requests = <<>>
             /\ call.status = "raised"
        ELSE IF Len(turns) = 1 /\ turns[1].role = "user"
        THEN SingleShot(turns)
        ELSE SessionWithHistory(turns)

C6_Witness ==
  /\ IsGeminiChat
  /\ call.status = "returned"
  /\ Len(call.sessions) = 1
  /\ Len(call.sessions[1].history) = 2
  /\ call.sessions[1].history[1].role = "user"
  /\ call.sessions[1].history[2].role = "model"
  /\ call.requests[1].via = "send_message"
  /\ Len(call.requests[1].parts) = 3

(***************************************************************************)
(* C7 as stated.  For every adapter, when the vendor response to a chat or *)
(* complete call contains an error object, the call fails with an error    *)
(* whose message equals the vendor's error message field exactly, and no   *)
(* text is returned.                                                       *)
(***************************************************************************)
HasErrorObject == call.response # None /\ call.response[1].error # None

C7_Original ==
  (call.status # "idle" /\ HasErrorObject) =>
    /\ call.status = "raised"
    /\ call.error = call.response[1].error
    /\ call.text = None

(***************************************************************************)
(* C7 as amended.  For OpenAIApi, ClaudeApi, AwsBedrockClaudeApi and       *)
(* AwsBedrockMistralApi, when the vendor response to a chat or complete    *)
(* call contains an error object, the call fails with an error whose       *)
(* message equals the vendor's error message field exactly, and no text is *)
(* returned.  GeminiApi does not look for an error object: it fails with   *)
(* its empty-response error when the response has no text and returns the  *)
(* response's text otherwise.                                              *)
(***************************************************************************)
C7_VendorErrorPropagated ==
  (call.status # "idle" /\ HasErrorObject) =>
    IF call.api # "GeminiApi"
    THEN /\ call.status = "raised"
         /\ call.error = call.response[1].error
         /\ call.text = None
    ELSE IF call.response[1].text = ""
    THEN /\ call.status = "raised"
         /\ call.error = Some("Gemini API returned empty response")
         /\ call.text = None
    ELSE /\ call.status = "returned"
         /\ call.text = Some(call.response[1].text)

C7_Witness ==
  /\ call.status = "raised"
  /\ call.api = "AwsBedrockMistralApi"
  /\ call.op = "complete"
  /\ HasErrorObject
  /\ call.response[1].text # ""
  /\ call.error = Some("Overloaded")

(***************************************************************************)
(* C8.  AwsBedrockMistralApi.chat fails with its unsupported-operation     *)
(* error for every input, a valid Mistral model id included, and sends no  *)
(* gateway request.                                                        *)
(***************************************************************************)
C8_MistralChatUnsupported ==
  (call.status # "idle" /\ call.api = "AwsBedrockMistralApi" /\ call.op = "chat") =>
    /\ call.status = "raised"
    /\ call.error = Some("Mistral doesn't support chat API")
    /\ call.text = None
    /\ call.requests = <<>>
    /\ call.response = None

C8_Witness ==
  /\ call.status = "raised"
  /\ call.api = "AwsBedrockMistralApi"
  /\ call.op = "chat"
  /\ call.model \in bedrock_mistral_models
  /\ Len(call.messages) >= 2

(***************************************************************************)
(* C9 as stated.  Every chat or complete invocation on any adapter         *)
(* performs exactly one request and then either returns exactly one text   *)
(* result or fails.                                                        *)
(***************************************************************************)
OneTextOrFailure ==
  \/ call.status = "returned" /\ Len(call.text) = 1 /\ call.error = None
  \/ call.status = "raised" /\ call.text = None /\ Len(call.error) = 1

C9_Original ==
  call.status # "idle" => (Len(call.requests) = 1 /\ OneTextOrFailure)

(***************************************************************************)
(* C9 as amended.  Every chat or complete invocation performs at most one  *)
(* request: none when it fails before any I/O (model not in the registry   *)
(* checked, chat on AwsBedrockMistralApi, GeminiApi.chat on a conversation *)
(* with no non-system message), exactly one otherwise.  It then either     *)
(* returns exactly one text result or fails; a request that failed in      *)
(* transport is never followed by a second request within the invocation.  *)
(***************************************************************************)
FailsBeforeRequest ==
  \/ ~Validates(call.api, call.op)
  \/ call.model \notin RegistryChecked(call.api, call.op)
  \/ /\ call.api = "GeminiApi"
     /\ call.op = "chat"
     /\ WithoutSystem(call.messages) = <<>>

C9_AtMostOneRequest ==
  call.status # "idle" =>
    /\ Len(call.requests) = (IF FailsBeforeRequest THEN 0 ELSE 1)
    /\ FailsBeforeRequest => call.status = "raised"
    /\ OneTextOrFailure
    /\ (call.response # None /\ call.response[1].fails) =>
         /\ call.status = "raised"
         /\ call.error = Some(TransportError)
         /\ Len(call.requests) = 1

C9_Witness ==
  /\ call.status = "raised"
  /\ call.api = "ClaudeApi"
  /\ call.op = "chat"
  /\ call.response # None
  /\ call.response[1].fails
  /\ Len(call.requests) = 1

(***************************************************************************)
(* C11.  After any sequence of make_message calls starting from an empty   *)
(* conversation, no system-role message in any returned list carries       *)
(* images, and a make_message call with role system and an image supplied  *)
(* raised, returned no list and left the list it was given as it was.      *)
(***************************************************************************)
C11_SystemWithoutImages ==
  /\ \A k \in 1..Len(lists) : \A i \in SystemIndices(lists[k]) :
       lists[k][i].images = None
  /\ (mk.status # "idle" /\ mk.role = "system" /\ mk.image # None) =>
       /\ mk.status = "raised"
       /\ mk.error = "System prompt does not support image."
       /\ mk.out = 0
       /\ mk.in # 0 => lists[mk.in] = mk.pre

C11_Witness ==
  /\ mk.status = "raised"
  /\ mk.role = "system"
  /\ mk.image # None
  /\ mk.in # 0
  /\ Len(mk.pre) >= 1
  /\ SystemIndices(mk.pre) = {}

(***************************************************************************)
(* C13.  The seed argument is inert: for every adapter, the call made and  *)
(* the same call with any other seed send the same requests (endpoint,     *)
(* headers, body) and, for a given vendor response, have the same outcome; *)
(* no request carries a seed field.                                        *)
(***************************************************************************)
SameCallWithSeed(seed, resp) ==
  LET api == CHOOSE a \in Apis : a.class = call.api
      config == make_config(1024, call.model, 0)
  IN  IF call.op = "chat"
      THEN LLMChatNode_chat(call.messages, api, config, seed, resp)
      ELSE LLMCompletionNode_chat(call.prompt, api, config, seed, resp)

CarriesSeed(req) ==
  \/ "seed" \in DOMAIN req
  \/ req.via = "requests.post" /\ "seed" \in DOMAIN req.json
  \/ req.via = "invoke_model" /\ "seed" \in DOMAIN req.body
  \/ req.via \in {"generate_content", "send_message"}
       /\ "seed" \in DOMAIN req.generation_config

C13_SeedInert ==
  call.status # "idle" =>
    /\ \A seed \in Seeds :
         \A resp \in (IF call.response = None THEN Responses ELSE {call.response[1]}) :
           LET other == SameCallWithSeed(seed, resp)
           IN  /\ other.requests = call.requests
               /\ other.sessions = call.sessions
               /\ other.status = call.status
               /\ other.text = call.text
               /\ other.error = call.error
    /\ \A i \in 1..Len(call.requests) : ~CarriesSeed(call.requests[i])

C13_Witness ==
  /\ call.status = "returned"
  /\ call.api = "OpenAIApi"
  /\ call.op = "chat"
  /\ call.seed = 7
  /\ Len(call.requests) = 1
  /\ \E seed \in Seeds : seed # call.seed

(***************************************************************************)
(* C12.  Vocabulary: the credential parameters of each adapter-creation    *)
(* node with the adapter field each ends up in, what the environment       *)
(* offers for a parameter, and the credential the adapter holds.           *)
(***************************************************************************)
CredentialParams(node) ==
  CASE node = "OpenAIApiNode" -> {[arg |-> "openai_api_key", field |-> "api_key"]}
    [] node = "ClaudeApiNode" -> {[arg |-> "claude_api_key", field |-> "api_key"]}
    [] node = "GeminiApiNode" -> {[arg |-> "google_api_key", field |-> "api_key"]}
    [] node \in {"AwsBedrockMistralApiNode", "AwsBedrockClaudeApiNode"} ->
         {[arg |-> "aws_access_key_id", field |-> "aws_access_key_id"],
          [arg |-> "aws_secret_access_key", field |-> "aws_secret_access_key"],
          [arg |-> "aws_session_token", field |-> "aws_session_token"]}

(* ClaudeApiNode reads ANTHROPIC_API_KEY, and CLAUDE_API_KEY when that one *)
(* is unset.                                                               *)
FromEnvironment(arg) ==
  CASE arg = "openai_api_key" -> environ["OPENAI_API_KEY"]
    [] arg = "claude_api_key" ->
         IF environ["ANTHROPIC_API_KEY"] # None THEN environ["ANTHROPIC_API_KEY"]
         ELSE environ["CLAUDE_API_KEY"]
    [] arg = "google_api_key" -> environ["GOOGLE_API_KEY"]
    [] arg = "aws_access_key_id" -> environ["AWS_ACCESS_KEY_ID"]
    [] arg = "aws_secret_access_key" -> environ["AWS_SECRET_ACCESS_KEY"]
    [] arg = "aws_session_token" -> environ["AWS_SESSION_TOKEN"]

Absent(x) == x = None \/ x = Some("")

Held(field) ==
  IF field = "aws_session_token" THEN created.api[1][field]
  ELSE Some(created.api[1][field])

IsConfigurationError(error) ==
  error \in {Some("OpenAI API key is required."), Some("Anthropic API key is required."),
             Some("AWS credentials is required."), Some("Google API key is required.")}

NothingConstructed ==
  /\ created.status = "raised"
  /\ IsConfigurationError(created.error)
  /\ created.api = None
  /\ created.ensured = <<>>

CallerOrEnvironment(c) ==
  /\ ~Absent(created.args[c.arg]) =>
       (created.status = "returned" => Held(c.field) = created.args[c.arg])
  /\ (Absent(created.args[c.arg]) /\ ~Absent(FromEnvironment(c.arg))) =>
       (created.status = "returned" => Held(c.field) = FromEnvironment(c.arg))

(***************************************************************************)
(* C12 as stated.  For every adapter-creation node and every credential:   *)
(* a non-empty value supplied by the caller is the one the adapter holds,  *)
(* whatever the environment contains; when the caller's value is empty the *)
(* provider's environment variable is used; when both are absent,          *)
(* create_api fails with a configuration error, no adapter is constructed  *)
(* and no network attempt is made.                                         *)
(***************************************************************************)
C12_Original ==
  created.status # "idle" =>
    \A c \in CredentialParams(created.node) :
      /\ CallerOrEnvironment(c)
      /\ (Absent(created.args[c.arg]) /\ Absent(FromEnvironment(c.arg)))
           => NothingConstructed

(***************************************************************************)
(* C12 as amended.  As stated for the API keys and for the AWS access key  *)
(* id and secret access key (for ClaudeApiNode the environment variable is *)
(* ANTHROPIC_API_KEY, or CLAUDE_API_KEY when that one is unset), and       *)
(* create_api returns an adapter whenever each of these is given by the    *)
(* caller or the environment.  The AWS session token follows the same      *)
(* caller-then-environment order but is optional: absent from both, the    *)
(* adapter is still constructed, with no session token.                    *)
(***************************************************************************)
Required(c) == c.arg # "aws_session_token"

C12_CredentialResolution ==
  created.status # "idle" =>
    LET params == CredentialParams(created.node)
        missing == {c \in params : /\ Required(c)
                                   /\ Absent(created.args[c.arg])
                                   /\ Absent(FromEnvironment(c.arg))}
    IN  /\ \A c \in params : CallerOrEnvironment(c)
        /\ missing # {} => NothingConstructed
        /\ missing = {} =>
             /\ created.status = "returned"
             /\ created.api # None
             /\ created.error = None
             /\ \A c \in params :
                  (~Required(c) /\ Absent(created.args[c.arg])
                     /\ Absent(FromEnvironment(c.arg)))
                    => Absent(Held(c.field))

C12_Witness ==
  /\ created.status = "returned"
  /\ created.node = "AwsBedrockClaudeApiNode"
  /\ created.args.aws_access_key_id = Some("arg:aws_access_key_id")
  /\ environ["AWS_ACCESS_KEY_ID"] = Some("env:AWS_ACCESS_KEY_ID")
  /\ created.args.aws_secret_access_key = Some("")
  /\ environ["AWS_SECRET_ACCESS_KEY"] = Some("env:AWS_SECRET_ACCESS_KEY")
  /\ created.api[1].aws_access_key_id = "arg:aws_access_key_id"
  /\ created.api[1].aws_secret_access_key = "env:AWS_SECRET_ACCESS_KEY"

====
